---- MODULE Spec2Model ----
(***************************************************************************)
(* A model of price_tracker.py: the price normaliser (parse_price), the    *)
(* field extractor (sel_one), the page extractor (extract) with its rule   *)
(* catalog (load_config), and the history log with the price-drop alert of *)
(* main.run_once.                                                          *)
(*                                                                         *)
(* Python values are modelled as follows.  A str whose characters matter   *)
(* is a sequence of one-character strings.  An Optional value is a         *)
(* sequence of length at most one: None is <<>> and a present v is <<v>>.  *)
(* A float is a decimal <<n, s>> standing for n / 10^s, kept normalised    *)
(* (no trailing zero in the fraction), which is exact for the short        *)
(* decimal strings of the model.                                           *)
(***************************************************************************)
EXTENDS Integers, Sequences, FiniteSets, TLC

VARIABLES
    pc,             \* position of the modelled caller
    raw,            \* parse_price: the argument
    cleaned,        \* parse_price: the local `cleaned` as handed to float()
    ret,            \* parse_price: the returned pair <<price, currency>>
    custom,         \* load_config: the parsed override file, None without one
    selectors_map,  \* the rule catalog load_config returned
    url,            \* extract: the argument
    doc,            \* extract: the document make_soup built
    loc,            \* extract: its locals (rules, the three sel_one calls)
    record,         \* extract: the returned dict, None when it raised
    lines,          \* run_once: the lines of the urls file
    webhook,        \* main: the webhook, "" when alerts are off
    i,              \* run_once: index of the next line of the for loop
    pass,           \* main: number of run_once calls started
    file,           \* history.csv: None while it does not exist, else its rows
    out,            \* what run_once printed, one entry per URL handled
    posts           \* the requests.post calls of send_discord

vars == <<pc, raw, cleaned, ret, custom, selectors_map, url, doc, loc, record,
          lines, webhook, i, pass, file, out, posts>>

priceVars   == <<raw, cleaned, ret>>
extractVars == <<custom, selectors_map, url, doc, loc, record>>
runVars     == <<lines, webhook, i, pass, file, out, posts>>

None == <<>>
Some(x) == <<x>>

(***************************************************************************)
(* Bounds of the model.                                                    *)
(***************************************************************************)
MaxLen == 4
MaxNodes == 3
MaxPasses == 2

(***************************************************************************)
(* str helpers                                                             *)
(***************************************************************************)
DigitVal ==
    "0" :> 0 @@ "1" :> 1 @@ "2" :> 2 @@ "3" :> 3 @@ "4" :> 4 @@
    "5" :> 5 @@ "6" :> 6 @@ "7" :> 7 @@ "8" :> 8 @@ "9" :> 9

DigitChars == DOMAIN DigitVal

DigitOf == <<"0", "1", "2", "3", "4", "5", "6", "7", "8", "9">>

IsSpace(c) == c \in {" "}

RECURSIVE LStrip(_)
LStrip(s) ==
    IF s # <<>> /\ IsSpace(s[1]) THEN LStrip(Tail(s)) ELSE s

RECURSIVE RStrip(_)
RStrip(s) ==
    IF s # <<>> /\ IsSpace(s[Len(s)]) THEN RStrip(SubSeq(s, 1, Len(s) - 1)) ELSE s

\* str.strip()
Strip(s) == RStrip(LStrip(s))

UpperOf == "c" :> "C" @@ "h" :> "H" @@ "f" :> "F"

\* str.upper()
Upper(s) == [k \in 1..Len(s) |-> IF s[k] \in DOMAIN UpperOf THEN UpperOf[s[k]] ELSE s[k]]

\* sub in s
RECURSIVE Contains(_, _)
Contains(s, sub) ==
    IF Len(sub) > Len(s) THEN FALSE
    ELSE IF SubSeq(s, 1, Len(sub)) = sub THEN TRUE
    ELSE Contains(Tail(s), sub)

\* s.rfind(c), as Python counts: from 0, and -1 when c does not occur
RFind(s, c) ==
    LET at == {k \in 1..Len(s) : s[k] = c}
    IN  IF at = {} THEN -1 ELSE (CHOOSE k \in at : \A j \in at : j <= k) - 1

\* s.replace(c, to) for a one-character c
RECURSIVE Replace(_, _, _)
Replace(s, c, to) ==
    IF s = <<>> THEN <<>>
    ELSE (IF s[1] = c THEN to ELSE <<s[1]>>) \o Replace(Tail(s), c, to)

\* s.split(c)
RECURSIVE Split(_, _)
Split(s, c) ==
    LET at == {k \in 1..Len(s) : s[k] = c}
    IN  IF at = {} THEN <<s>>
        ELSE LET k == CHOOSE j \in at : \A m \in at : j <= m
             IN  <<SubSeq(s, 1, k - 1)>> \o Split(SubSeq(s, k + 1, Len(s)), c)

\* "".join(parts)
RECURSIVE Join(_)
Join(parts) ==
    IF parts = <<>> THEN <<>> ELSE parts[1] \o Join(Tail(parts))

(***************************************************************************)
(* float helpers                                                           *)
(***************************************************************************)
RECURSIVE Norm(_)
Norm(d) ==
    IF d[2] > 0 /\ d[1] % 10 = 0 THEN Norm(<<d[1] \div 10, d[2] - 1>>) ELSE d

RECURSIVE DigitsToInt(_)
DigitsToInt(s) ==
    IF s = <<>> THEN 0
    ELSE 10 * DigitsToInt(SubSeq(s, 1, Len(s) - 1)) + DigitVal[s[Len(s)]]

RECURSIVE Pow10(_)
Pow10(n) == IF n = 0 THEN 1 ELSE 10 * Pow10(n - 1)

\* float(s) for a string of digits, '.' and '-': None stands for ValueError
ParseFloat(s) ==
    LET neg  == s # <<>> /\ s[1] = "-"
        body == IF neg THEN Tail(s) ELSE s
        dots == {k \in 1..Len(body) : body[k] = "."}
        ok   == /\ \A k \in 1..Len(body) : body[k] \in DigitChars \cup {"."}
                /\ Cardinality(dots) <= 1
                /\ \E k \in 1..Len(body) : body[k] \in DigitChars
        p    == IF dots = {} THEN Len(body) + 1 ELSE CHOOSE k \in dots : TRUE
        whole == SubSeq(body, 1, p - 1)
        frac  == SubSeq(body, p + 1, Len(body))
        n     == DigitsToInt(whole \o frac)
    IN  IF ok THEN Some(Norm(<<IF neg THEN 0 - n ELSE n, Len(frac)>>)) ELSE None

\* a < b for floats
Less(a, b) == a[1] * Pow10(b[2]) < b[1] * Pow10(a[2])

\* a - b for floats
Minus(a, b) ==
    LET s == IF a[2] > b[2] THEN a[2] ELSE b[2]
    IN  Norm(<<a[1] * Pow10(s - a[2]) - b[1] * Pow10(s - b[2]), s>>)

\* round(x, 2): to the nearest hundredth, ties to even
Round2(x) ==
    IF x[2] <= 2 THEN x
    ELSE LET unit == Pow10(x[2] - 2)
             q    == x[1] \div unit
             r    == x[1] % unit
             up   == 2 * r > unit \/ (2 * r = unit /\ q % 2 = 1)
         IN  Norm(<<IF up THEN q + 1 ELSE q, 2>>)

RECURSIVE NatStr(_)
NatStr(n) ==
    IF n < 10 THEN <<DigitOf[n + 1]>> ELSE NatStr(n \div 10) \o <<DigitOf[(n % 10) + 1]>>

RECURSIVE ZeroPad(_, _)
ZeroPad(s, w) == IF Len(s) >= w THEN s ELSE ZeroPad(<<"0">> \o s, w)

\* str(x) of a float: "90.0", "99.5", "-1.25"
FloatStr(x) ==
    LET neg   == x[1] < 0
        n     == IF neg THEN 0 - x[1] ELSE x[1]
        whole == NatStr(n \div Pow10(x[2]))
        frac  == IF x[2] = 0 THEN <<"0">> ELSE ZeroPad(NatStr(n % Pow10(x[2])), x[2])
    IN  (IF neg THEN <<"-">> ELSE <<>>) \o whole \o <<".">> \o frac

(***************************************************************************)
(* parse_price                                                             *)
(***************************************************************************)
EUR == <<"E", "U", "R">>
USD == <<"U", "S", "D">>
GBP == <<"G", "B", "P">>
CHF == <<"C", "H", "F">>

\* the dict's items, in insertion order: <<sign, code>>
CURRENCY_SIGNS ==
    << <<<<"€">>, EUR>>, <<<<"$">>, USD>>, <<<<"£">>, GBP>>, <<CHF, CHF>> >>

\* the for loop without its break: the last sign found wins
CurrencyOfNoBreak(txt) ==
    LET hits == {k \in 1..Len(CURRENCY_SIGNS) : Contains(txt, CURRENCY_SIGNS[k][1])}
    IN  IF hits = {} THEN None
        ELSE Some(CURRENCY_SIGNS[CHOOSE k \in hits : \A j \in hits : j <= k][2])

RECURSIVE ScanSigns(_, _)
ScanSigns(txt, k) ==
    IF k > Len(CURRENCY_SIGNS) THEN None
    ELSE IF Contains(txt, CURRENCY_SIGNS[k][1]) THEN Some(CURRENCY_SIGNS[k][2])
    ELSE ScanSigns(txt, k + 1)

\* the for loop over CURRENCY_SIGNS.items()
CurrencyOf(txt) == ScanSigns(txt, 1)

KeptByRegex(c) == c \in DigitChars \cup {",", ".", "-"}

\* re.sub(r"[^\d,.\-]", "", txt)
DigitsString(txt) == SelectSeq(txt, KeptByRegex)

\* a comma counts as the decimal separator only when a '.' precedes it
DisambiguateDotRequired(s) ==
    IF RFind(s, ".") >= 0 /\ RFind(s, ",") > RFind(s, ".")
    THEN Replace(Replace(s, ".", <<>>), ",", <<".">>)
    ELSE LET parts == Split(s, ".")
         IN  IF Len(parts) > 2
             THEN Replace(Join(SubSeq(parts, 1, Len(parts) - 1)), ",", <<>>)
                      \o <<".">> \o parts[Len(parts)]
             ELSE Replace(s, ",", <<>>)

\* the if/else on the separators
Disambiguate(s) ==
    IF Contains(s, <<",">>) /\ RFind(s, ",") > RFind(s, ".")
    THEN Replace(Replace(s, ".", <<>>), ",", <<".">>)
    ELSE LET parts == Split(s, ".")
         IN  IF Len(parts) > 2
             THEN Replace(Join(SubSeq(parts, 1, Len(parts) - 1)), ",", <<>>)
                      \o <<".">> \o parts[Len(parts)]
             ELSE Replace(s, ",", <<>>)

\* `not raw`
Falsy(r) == r = None \/ r[1] = <<>>

\* the local `cleaned` at the float() call, None on the early return
HandedToFloat(r) ==
    IF Falsy(r) THEN None ELSE Some(Disambiguate(DigitsString(Strip(r[1]))))

parse_price(r) ==
    IF Falsy(r) THEN <<None, None>>
    ELSE <<ParseFloat(HandedToFloat(r)[1]), CurrencyOf(Strip(r[1]))>>

\* the characters the enumerated price strings are made of
Alphabet == {"0", "1", ",", ".", "-", " ", "€", "$", "C", "H", "F"}

Ex_EU == <<"1", ".", "2", "3", "4", ",", "5", "6", " ", "€">>
Ex_US == <<"$", "1", ",", "2", "3", "4", ".", "5", "6">>
Ex_CHF == <<"C", "H", "F", " ", "1", "'", "2", "5", "0", ".", "0", "0">>
Ex_Thousands == <<"1", ",", "2", "3", "4">>
Ex_Millions == <<"1", ",", "2", "3", "4", ",", "5", "6", "7">>
Ex_Mixed == <<"1", ",", "2", ".", "3", ",", "4">>
Ex_DotsThenComma == <<"1", ".", "2", ".", "3", ",", "4">>
Ex_Pounds == <<"£", " ", "5">>

Examples ==
    {Ex_EU, Ex_US, Ex_CHF, Ex_Thousands, Ex_Millions, Ex_Mixed, Ex_DotsThenComma,
     Ex_Pounds}

RawInputs ==
    {None} \cup {Some(s) : s \in Examples \cup UNION {[1..n -> Alphabet] : n \in 0..MaxLen}}

IdleExtract ==
    /\ custom = None /\ selectors_map = None /\ url = None /\ doc = None
    /\ loc = None /\ record = None

IdleRun ==
    /\ lines = None /\ webhook = "" /\ i = 0 /\ pass = 0 /\ file = None
    /\ out = <<>> /\ posts = <<>>

IdlePrice == raw = None /\ cleaned = None /\ ret = None

InitPrice ==
    /\ pc = "call"
    /\ raw \in RawInputs
    /\ cleaned = None
    /\ ret = None
    /\ IdleExtract
    /\ IdleRun

ParsePrice ==
    /\ pc = "call"
    /\ pc' = "returned"
    /\ cleaned' = HandedToFloat(raw)
    /\ ret' = parse_price(raw)
    /\ UNCHANGED <<raw, extractVars, runVars>>

NextPrice == ParsePrice

SpecPrice == InitPrice /\ [][NextPrice]_vars

(***************************************************************************)
(* The rule catalog: DEFAULT_SELECTORS and load_config.  A css selector    *)
(* list "a, b" is the sequence <<"a", "b">> of its alternatives and the    *)
(* empty selector "" is <<>>; attr is None or Some(name).                  *)
(***************************************************************************)
Rule(css, attr) == [css |-> css, attr |-> attr]

DEFAULT_SELECTORS ==
    "generic" :>
        ("title" :> Rule(<<"meta[property='og:title']", "h1">>, None) @@
         "price" :> Rule(<<"[itemprop='price']", "meta[property='product:price:amount']",
                           ".price", ".product-price", "[data-price]">>, Some("content")) @@
         "currency" :> Rule(<<"meta[property='product:price:currency']",
                              "[itemprop='priceCurrency']">>, Some("content")))
    @@ "www.fnac.com" :>
        ("title" :> Rule(<<"h1">>, None) @@
         "price" :> Rule(<<"[data-test='price'] .f-priceBox-price", ".f-priceBox-price">>, None) @@
         "currency" :> Rule(<<>>, None))
    @@ "www.cdiscount.com" :>
        ("title" :> Rule(<<"h1">>, None) @@
         "price" :> Rule(<<".fpPrice.price", ".jsMainPrice">>, None) @@
         "currency" :> Rule(<<>>, None))

\* override files: rule sets for a new origin, and for "generic" and a built-in origin
ShopRules ==
    "title" :> Rule(<<"h1">>, None) @@
    "price" :> Rule(<<".price">>, None) @@
    "currency" :> Rule(<<"[itemprop='priceCurrency']">>, None)

PlainRules ==
    "title" :> Rule(<<"h1">>, None) @@
    "price" :> Rule(<<".price", ".f-priceBox-price">>, None)

FnacMetaRules ==
    "title" :> Rule(<<"meta[property='og:title']">>, Some("content")) @@
    "price" :> Rule(<<".f-priceBox-price">>, None) @@
    "currency" :> Rule(<<"meta[property='product:price:currency']">>, Some("content"))

Configs ==
    {None,
     Some("shop.example" :> ShopRules),
     Some("generic" :> PlainRules @@ "www.fnac.com" :> FnacMetaRules)}

\* cfg = DEFAULT_SELECTORS.copy(); cfg.update(custom)
load_config(c) ==
    IF c # None THEN c[1] @@ DEFAULT_SELECTORS ELSE DEFAULT_SELECTORS

(***************************************************************************)
(* Documents: the nodes of the parsed page in document order.  A node      *)
(* carries the alternatives of the catalog it matches, its attributes and  *)
(* its text.                                                               *)
(***************************************************************************)
Node(sel, attrs, text) == [sel |-> sel, attrs |-> attrs, text |-> text]

NoAttrs == [a \in {} |-> <<>>]

NodeSet ==
    {Node({"meta[property='og:title']"}, "content" :> <<" ">>, <<>>),
     Node({"h1"}, NoAttrs, <<" ", "H", " ">>),
     Node({"[itemprop='price']"}, "content" :> <<"9", " ", "€">>, <<"9", ",", "0">>),
     Node({"meta[property='product:price:amount']"}, "content" :> <<"8", ".", "5">>, <<>>),
     Node({".price"}, NoAttrs, <<"1", "0", " ", "$">>),
     Node({"meta[property='product:price:currency']"}, "content" :> <<" ", "c", "h", "f">>, <<>>),
     Node({"[itemprop='priceCurrency']"}, NoAttrs, <<"c", "h", "f">>),
     Node({".f-priceBox-price"}, NoAttrs, <<"1", ",", "5">>),
     Node({"[data-test='price'] .f-priceBox-price", ".f-priceBox-price"}, NoAttrs,
          <<"2", " ", "€">>)}

Docs == UNION {[1..n -> NodeSet] : n \in 0..MaxNodes}

\* urlparse(url).netloc of the model's URLs
NetlocOf ==
    "https://WWW.FNAC.COM/a1" :> "WWW.FNAC.COM" @@
    "https://shop.example/p" :> "shop.example" @@
    "https://other.example/x" :> "other.example"

\* str.lower() of the model's hosts
LowerOf ==
    "WWW.FNAC.COM" :> "www.fnac.com" @@
    "shop.example" :> "shop.example" @@
    "other.example" :> "other.example"

Urls == DOMAIN NetlocOf

get_domain(u) == LowerOf[NetlocOf[u]]

(***************************************************************************)
(* sel_one and extract                                                     *)
(***************************************************************************)
\* soup.select_one(css): the first node in document order that matches any
\* alternative of the selector list, 0 when there is none
select_one(soup, css) ==
    LET hits == {k \in 1..Len(soup) : \E a \in 1..Len(css) : css[a] \in soup[k].sel}
    IN  IF hits = {} THEN 0 ELSE CHOOSE k \in hits : \A j \in hits : k <= j

\* x or None
OrNone(s) == IF s = <<>> THEN None ELSE Some(s)

\* what a sel_one call did: the node it used (0: none), whether it raised
\* AttributeError, and the value it returned
SelRes(called, node, err, val) ==
    [called |-> called, node |-> node, err |-> err, val |-> val]

NotCalled == SelRes(FALSE, 0, FALSE, None)

sel_one(soup, css, attr) ==
    IF css = <<>> THEN SelRes(TRUE, 0, FALSE, None)
    ELSE LET el == select_one(soup, css)
         IN  IF el = 0 THEN SelRes(TRUE, 0, FALSE, None)
             ELSE IF attr # None
             THEN IF attr[1] \in DOMAIN soup[el].attrs
                  THEN SelRes(TRUE, el, FALSE, OrNone(Strip(soup[el].attrs[attr[1]])))
                  ELSE SelRes(TRUE, el, TRUE, None)   \* None.strip()
             ELSE SelRes(TRUE, el, FALSE, OrNone(Strip(soup[el].text)))

\* m.get(k)
Get(m, k) == IF k \in DOMAIN m THEN Some(m[k]) ELSE None

\* the rule set is always the built-in generic one when the origin has none
resolve_builtin_generic(map, domain) ==
    IF Get(map, domain) # None THEN Get(map, domain) ELSE Some(DEFAULT_SELECTORS["generic"])

\* selectors_map.get(domain) or selectors_map.get("generic")
resolve(map, domain) ==
    IF Get(map, domain) # None THEN Get(map, domain) ELSE Get(map, "generic")

\* the currency field overrides the hint of the price text
reconcile_field_first(hint, curr_from_rule) ==
    IF curr_from_rule # None THEN Some(Upper(Strip(curr_from_rule[1]))) ELSE hint

\* if not currency and curr_from_rule: currency = curr_from_rule.strip().upper()
reconcile(hint, curr_from_rule) ==
    IF hint = None /\ curr_from_rule # None
    THEN Some(Upper(Strip(curr_from_rule[1])))
    ELSE hint

\* extract(url, selectors_map) on the document fetch and make_soup gave:
\* its locals, and the dict it returns (None when it raised)
extract(u, soup, map) ==
    LET domain == get_domain(u)
        found  == resolve(map, domain)
    IN  IF found = None
        THEN [rules |-> None, title |-> NotCalled, price_raw |-> NotCalled,
              curr_from_rule |-> NotCalled, record |-> None]
        ELSE
        LET rules == found[1]
            title == sel_one(soup, rules["title"].css, rules["title"].attr)
            price_raw ==
                IF title.err THEN NotCalled
                ELSE sel_one(soup, rules["price"].css, rules["price"].attr)
            curr ==
                IF title.err \/ price_raw.err THEN NotCalled
                ELSE IF "currency" \in DOMAIN rules /\ rules["currency"].css # <<>>
                THEN sel_one(soup, rules["currency"].css, rules["currency"].attr)
                ELSE NotCalled
            parsed == parse_price(price_raw.val)
        IN  [rules |-> found,
             title |-> title,
             price_raw |-> price_raw,
             curr_from_rule |-> curr,
             record |->
                IF title.err \/ price_raw.err \/ curr.err THEN None
                ELSE Some([url |-> u,
                           domain |-> domain,
                           title |-> IF title.val = None THEN <<>> ELSE title.val[1],
                           price |-> parsed[1],
                           currency |-> reconcile(parsed[2], curr.val)])]

InitExtract ==
    /\ pc = "main"
    /\ custom \in Configs
    /\ selectors_map = None
    /\ url = None /\ doc = None /\ loc = None /\ record = None
    /\ IdlePrice
    /\ IdleRun

\* main: selectors_map = load_config(args.config)
LoadConfig ==
    /\ pc = "main"
    /\ pc' = "loaded"
    /\ selectors_map' = Some(load_config(custom))
    /\ UNCHANGED <<custom, url, doc, loc, record, priceVars, runVars>>

\* a call extract(url, selectors_map): fetch raises, or gives a document
Extract ==
    /\ pc = "loaded"
    /\ \E u \in Urls :
        /\ url' = Some(u)
        /\ \/ /\ doc' = None
              /\ loc' = None
              /\ record' = None
              /\ pc' = "raised"
           \/ \E d \in Docs :
                LET r == extract(u, d, selectors_map[1])
                IN  /\ doc' = Some(d)
                    /\ loc' = Some([f \in {"rules", "title", "price_raw", "curr_from_rule"} |-> r[f]])
                    /\ record' = r.record
                    /\ pc' = IF r.record = None THEN "raised" ELSE "extracted"
    /\ UNCHANGED <<custom, selectors_map, priceVars, runVars>>

NextExtract == LoadConfig \/ Extract

SpecExtract == InitExtract /\ [][NextExtract]_vars

(***************************************************************************)
(* The history log: save_history and last_price_for.  The file is the      *)
(* sequence of its csv rows, the header row first; a row is the tuple of   *)
(* its fields.  The timestamp column holds the number of the pass.         *)
(***************************************************************************)
HEADER == <<"timestamp", "domain", "url", "title", "price", "currency">>

\* csv.DictReader: the field of row r the header names col
Field(rows, r, col) == r[CHOOSE k \in 1..Len(rows[1]) : rows[1][k] = col]

save_history(row, f, now) ==
    Some((IF f = None THEN <<HEADER>> ELSE f[1]) \o
         << <<now,
              row.domain,
              row.url,
              row.title,
              IF row.price # None THEN FloatStr(row.price[1]) ELSE <<>>,
              IF row.currency # None THEN row.currency[1] ELSE <<>> >> >>)

\* the loop stops at the first matching row
RECURSIVE ScanFirst(_, _, _)
ScanFirst(rows, k, u) ==
    IF k > Len(rows) THEN None
    ELSE IF Field(rows, rows[k], "url") = u /\ Field(rows, rows[k], "price") # <<>>
              /\ ParseFloat(Field(rows, rows[k], "price")) # None
         THEN ParseFloat(Field(rows, rows[k], "price"))
         ELSE ScanFirst(rows, k + 1, u)

last_price_for_first(u, f) ==
    IF f = None THEN None ELSE ScanFirst(f[1], 2, u)

\* for r in reader: the rows from row k on, `last` so far
RECURSIVE ScanRows(_, _, _, _)
ScanRows(rows, k, u, last) ==
    IF k > Len(rows) THEN last
    ELSE ScanRows(rows, k + 1, u,
             IF Field(rows, rows[k], "url") = u /\ Field(rows, rows[k], "price") # <<>>
                  /\ ParseFloat(Field(rows, rows[k], "price")) # None
             THEN ParseFloat(Field(rows, rows[k], "price"))
             ELSE last)

last_price_for(u, f) ==
    IF f = None THEN None ELSE ScanRows(f[1], 2, u, None)

(***************************************************************************)
(* main.run_once.  A line of the urls file is a sequence of chunks: " "    *)
(* is whitespace, "#" the comment mark, any other chunk the text of a URL. *)
(***************************************************************************)
UrlA == "https://other.example/x"
UrlB == "https://shop.example/p"

UrlFiles ==
    {<<>>,
     << <<"#", UrlA>>, <<" ">> >>,
     << <<UrlA>>, <<UrlA>> >>,
     << <<" ", UrlA, " ">>, <<"#", " ", UrlB>>, <<>>, <<UrlB>> >>}

RECURSIVE StrJoin(_)
StrJoin(chunks) == IF chunks = <<>> THEN "" ELSE chunks[1] \o StrJoin(Tail(chunks))

\* not url or url.startswith("#")
Skipped(line) == IF Strip(line) = <<>> THEN TRUE ELSE Strip(line)[1] = "#"

PricePage(p) == << Node({"[itemprop='price']"}, "content" :> p, <<>>) >>

\* the pages the sites serve: a price of 100, 90 or 0, no price at all, and a
\* price element without a content attribute
RunDocs ==
    {PricePage(<<"1", "0", "0">>),
     PricePage(<<"9", "0", ",", "0", "0", " ", "€">>),
     PricePage(<<"0">>),
     << Node({"h1"}, NoAttrs, <<"T">>) >>,
     << Node({".price"}, NoAttrs, <<"9", "0">>) >>}

\* the price is read back after the new row is written
previous_price_after_write(u, before, after) == last_price_for(u, after)

\* previous_price = last_price_for(url, out_csv), then save_history(data, out_csv)
previous_price(u, before, after) == last_price_for(u, before)

\* the alert condition of run_once
price_dropped(hook, previous, price) ==
    hook # "" /\ previous # None /\ price # None /\ Less(price[1], previous[1])

\* requests.post(webhook, json=...) inside send_discord's try
send_discord(sent, u, previous, price, delivered) ==
    Append(sent, [url |-> u, before |-> previous[1], now |-> price[1],
                  delta |-> Round2(Minus(previous[1], price[1])),
                  delivered |-> delivered])

\* the exception leaves the for loop
abort_pass(k, n) == n + 1

\* except Exception inside the for loop: on to the next line
after_failure(k, n) == k + 1

InitRun ==
    /\ pc = "idle"
    /\ lines \in UrlFiles
    /\ webhook \in {"", "https://discord.example/hook"}
    /\ selectors_map = Some(load_config(None))
    /\ i = 0 /\ pass = 0
    /\ file = None
    /\ out = <<>> /\ posts = <<>>
    /\ custom = None /\ url = None /\ doc = None /\ loc = None /\ record = None
    /\ IdlePrice

\* run_once is called: it reads the urls file and returns at once when empty
StartPass ==
    /\ pc = "idle"
    /\ pass < MaxPasses
    /\ pass' = pass + 1
    /\ i' = 1
    /\ pc' = IF lines = <<>> THEN "idle" ELSE "loop"
    /\ UNCHANGED <<lines, webhook, file, out, posts, extractVars, priceVars>>

Position(k) == IF k > Len(lines) THEN "idle" ELSE "loop"

\* one iteration of the for loop on a blank or comment line
SkipLine ==
    /\ pc = "loop"
    /\ Skipped(lines[i])
    /\ i' = i + 1
    /\ pc' = Position(i')
    /\ UNCHANGED <<lines, webhook, pass, file, out, posts, extractVars, priceVars>>

\* one iteration of the for loop on a URL: the whole try/except
HandleUrl ==
    /\ pc = "loop"
    /\ ~Skipped(lines[i])
    /\ LET u == StrJoin(Strip(lines[i]))
       IN  \/ \* fetch raises
              /\ record' = None
              /\ out' = Append(out, [pass |-> pass, line |-> i, url |-> u, ok |-> FALSE])
              /\ i' = after_failure(i, Len(lines))
              /\ UNCHANGED <<file, posts>>
           \/ \E d \in RunDocs :
                LET data == extract(u, d, selectors_map[1]).record
                IN  IF data = None
                    THEN \* extract raises
                         /\ record' = None
                         /\ out' = Append(out, [pass |-> pass, line |-> i, url |-> u, ok |-> FALSE])
                         /\ i' = after_failure(i, Len(lines))
                         /\ UNCHANGED <<file, posts>>
                    ELSE LET after == save_history(data[1], file, pass)
                             prev  == previous_price(u, file, after)
                         IN  /\ record' = data
                             /\ file' = after
                             /\ out' = Append(out, [pass |-> pass, line |-> i, url |-> u, ok |-> TRUE])
                             /\ i' = i + 1
                             /\ IF price_dropped(webhook, prev, data[1].price)
                                THEN \E delivered \in BOOLEAN :
                                        posts' = send_discord(posts, u, prev, data[1].price, delivered)
                                ELSE posts' = posts
    /\ pc' = Position(i')
    /\ UNCHANGED <<lines, webhook, pass, custom, selectors_map, url, doc, loc, priceVars>>

NextRun == StartPass \/ SkipLine \/ HandleUrl

SpecRun == InitRun /\ [][NextRun]_vars

(***************************************************************************)
(* Claims about parse_price, checked under SpecPrice.                      *)
(***************************************************************************)
IsSeparator(c) == c \in {",", "."}

NotSeparator(c) == ~IsSeparator(c)

HasComma(d) == \E k \in 1..Len(d) : d[k] = ","

HasDot(d) == \E k \in 1..Len(d) : d[k] = "."

\* d with its rightmost separator written '.' and every other separator removed
RightmostAsDecimal(d) ==
    LET k == CHOOSE j \in 1..Len(d) :
                 IsSeparator(d[j]) /\ \A m \in j + 1..Len(d) : ~IsSeparator(d[m])
    IN  SelectSeq(SubSeq(d, 1, k - 1), NotSeparator) \o <<".">> \o SubSeq(d, k + 1, Len(d))

\* the digits string of the call in the current state
DigitsOfRaw == DigitsString(Strip(raw[1]))

\* C1: whenever the digits string holds both ',' and '.', the string handed to
\* float() is the digits string with its rightmost separator written '.' and
\* every other separator removed; "1.234,56 €" and "$1,234.56" give 1234.56
\* with EUR and USD.
C1_RightmostSeparatorIsDecimal ==
    (pc = "returned" /\ ~Falsy(raw)) =>
        /\ (HasComma(DigitsOfRaw) /\ HasDot(DigitsOfRaw)) =>
               cleaned = Some(RightmostAsDecimal(DigitsOfRaw))
        /\ raw = Some(Ex_EU) => ret = <<Some(<<123456, 2>>), Some(EUR)>>
        /\ raw = Some(Ex_US) => ret = <<Some(<<123456, 2>>), Some(USD)>>

\* C2 as stated: with ',' and no '.' in the digits string every ',' is dropped
\* and the value is the integer the remaining digits form.
C2_CommasDropped ==
    (pc = "returned" /\ ~Falsy(raw) /\ HasComma(DigitsOfRaw) /\ ~HasDot(DigitsOfRaw)) =>
        ret[1] = ParseFloat(Replace(DigitsOfRaw, ",", <<>>))

\* C2 as amended: with ',' and no '.' in the digits string every ',' is
\* written '.', so a single ',' is the decimal separator ("1,234" is 1.234)
\* and with two or more the price is absent ("1,234,567").
C2_CommasBecomeDots ==
    (pc = "returned" /\ ~Falsy(raw) /\ HasComma(DigitsOfRaw) /\ ~HasDot(DigitsOfRaw)) =>
        /\ cleaned = Some(Replace(DigitsOfRaw, ",", <<".">>))
        /\ ret[1] = ParseFloat(Replace(DigitsOfRaw, ",", <<".">>))
        /\ Cardinality({k \in 1..Len(DigitsOfRaw) : DigitsOfRaw[k] = ","}) >= 2 =>
               ret[1] = None
        /\ raw = Some(Ex_Thousands) => ret[1] = Some(<<1234, 3>>)
        /\ raw = Some(Ex_Millions) => ret[1] = None

C2_Witness ==
    pc = "returned" /\ raw = Some(Ex_Thousands) /\ ret = <<Some(<<1234, 3>>), None>>

\* sign occurs in txt
Occurs(sign, txt) ==
    \E k \in 1..Len(txt) :
        k + Len(sign) - 1 <= Len(txt) /\ SubSeq(txt, k, k + Len(sign) - 1) = sign

\* the entries of the priority list whose sign occurs in txt
SignsIn(txt) == {k \in 1..Len(CURRENCY_SIGNS) : Occurs(CURRENCY_SIGNS[k][1], txt)}

\* the code of the first entry of the priority list whose sign occurs in txt
FirstSignIn(txt) ==
    IF SignsIn(txt) = {} THEN None
    ELSE Some(CURRENCY_SIGNS[CHOOSE k \in SignsIn(txt) : \A j \in SignsIn(txt) : k <= j][2])

\* C5: the returned currency is the code of the first entry of the priority
\* list whose sign occurs in the trimmed text, absent when none occurs,
\* whether or not the number parses; an absent input gives (absent, absent).
C5_CurrencyHint ==
    pc = "returned" =>
        /\ raw = None => ret = <<None, None>>
        /\ raw # None => ret[2] = FirstSignIn(Strip(raw[1]))

C5_Witness ==
    /\ pc = "returned" /\ raw # None
    /\ Occurs(<<"$">>, raw[1]) /\ Occurs(<<"€">>, raw[1])
    /\ ret = <<None, Some(EUR)>>

(***************************************************************************)
(* Claims about sel_one, extract and load_config, checked under            *)
(* SpecExtract.                                                            *)
(***************************************************************************)
\* the rule each sel_one call of extract is made with
RuleKey == "title" :> "title" @@ "price_raw" :> "price" @@ "curr_from_rule" :> "currency"

\* the sel_one calls made by the extract call of the current state
CallsMade == IF loc = None THEN {} ELSE {f \in DOMAIN RuleKey : loc[1][f].called}

RuleOfCall(f) == loc[1].rules[1][RuleKey[f]]

\* C3: in attribute mode, when the first matched node does not carry the
\* attribute, sel_one returns None and raises nothing.
C3_MissingAttributeIsAbsent ==
    \A f \in CallsMade :
        (/\ RuleOfCall(f).css # <<>>
         /\ RuleOfCall(f).attr # None
         /\ loc[1][f].node # 0
         /\ RuleOfCall(f).attr[1] \notin DOMAIN doc[1][loc[1][f].node].attrs)
        => (~loc[1][f].err /\ loc[1][f].val = None)

\* the first node, in document order, of the lowest-indexed alternative of
\* css that matches any node; 0 when no alternative matches
PriorityNode(soup, css) ==
    LET alts == {a \in 1..Len(css) : \E k \in 1..Len(soup) : css[a] \in soup[k].sel}
    IN  IF alts = {} THEN 0
        ELSE LET a == CHOOSE x \in alts : \A y \in alts : x <= y
                 at == {k \in 1..Len(soup) : css[a] \in soup[k].sel}
             IN  CHOOSE k \in at : \A j \in at : k <= j

\* C4: the node sel_one uses is the first node in document order of the
\* lowest-indexed alternative that matches any node.
C4_FirstAlternativeWins ==
    \A f \in CallsMade :
        RuleOfCall(f).css # <<>> =>
            loc[1][f].node = PriorityNode(doc[1], RuleOfCall(f).css)

\* the currency hint in the price text of the current extract call
HintInPriceText ==
    IF loc[1].price_raw.val = None THEN None
    ELSE FirstSignIn(Strip(loc[1].price_raw.val[1]))

\* the current call's currency rule has a non-empty selector
HasCurrencySelector ==
    /\ "currency" \in DOMAIN loc[1].rules[1]
    /\ loc[1].rules[1]["currency"].css # <<>>

\* C6: the record's currency is the hint of the price text when there is
\* one; otherwise the currency field, trimmed and upper-cased, when the
\* currency rule has a non-empty selector and the field is present; otherwise
\* absent.  A currency rule with an empty selector is never evaluated.
C6_CurrencyReconciliation ==
    pc = "extracted" =>
        /\ record[1].currency =
              IF HintInPriceText # None THEN HintInPriceText
              ELSE IF HasCurrencySelector /\ loc[1].curr_from_rule.val # None
                   THEN Some(Upper(Strip(loc[1].curr_from_rule.val[1])))
                   ELSE None
        /\ ~HasCurrencySelector =>
              (~loc[1].curr_from_rule.called /\ record[1].currency = HintInPriceText)

C6_Witness ==
    /\ pc = "extracted"
    /\ loc[1].curr_from_rule.val = Some(<<"c", "h", "f">>)
    /\ HintInPriceText = Some(EUR)
    /\ record[1].currency = Some(EUR)

\* C8: the catalog load_config returns has "generic", holds the override's
\* entry for every key the override has and the built-in entry for every
\* other built-in key; extract uses the origin's own entry when the catalog
\* has one and the catalog's "generic" entry otherwise.
C8_GenericFallback ==
    pc # "main" =>
        LET map  == selectors_map[1]
            over == IF custom = None THEN [o \in {} |-> <<>>] ELSE custom[1]
        IN  /\ "generic" \in DOMAIN map
            /\ DOMAIN map = DOMAIN over \cup DOMAIN DEFAULT_SELECTORS
            /\ \A o \in DOMAIN over : map[o] = over[o]
            /\ \A o \in DOMAIN DEFAULT_SELECTORS \ DOMAIN over : map[o] = DEFAULT_SELECTORS[o]
            /\ loc # None =>
                  LET o == get_domain(url[1])
                  IN  loc[1].rules = Some(IF o \in DOMAIN map THEN map[o] ELSE map["generic"])

C8_Witness ==
    /\ pc = "extracted"
    /\ custom # None /\ "generic" \in DOMAIN custom[1]
    /\ get_domain(url[1]) = "other.example"
    /\ loc[1].rules = Some(PlainRules)

(***************************************************************************)
(* Claims about the history log and run_once, checked under SpecRun.       *)
(***************************************************************************)
\* the data rows of the history log f
Entries(f) == IF f = None THEN <<>> ELSE Tail(f[1])

\* the price of the most recently appended entry of f whose url is u and
\* whose price field is not empty; None when there is no such entry
LastEntryPrice(u, f) ==
    LET at == {k \in 1..Len(Entries(f)) : Entries(f)[k][3] = u /\ Entries(f)[k][5] # <<>>}
    IN  IF at = {} THEN None
        ELSE ParseFloat(Entries(f)[CHOOSE k \in at : \A j \in at : j <= k][5])

IsPrefix(s, t) == Len(s) <= Len(t) /\ SubSeq(t, 1, Len(s)) = s

\* this step appended a record to the history log
Appended == file' # file

\* C7: with a webhook, a step that appends a record for a URL posts one
\* notification exactly when the log as it stood before the append has a last
\* price P for the URL, the new price N is present and N < P, and the
\* notification reports P, N and round(P - N, 2); a step that appends nothing
\* posts nothing.
C7_PriceDropAlert ==
    [][webhook # "" =>
          IF Appended
          THEN LET u == record'[1].url
                   N == record'[1].price
                   P == LastEntryPrice(u, file)
               IN  IF P # None /\ N # None /\ Less(N[1], P[1])
                   THEN /\ Len(posts') = Len(posts) + 1
                        /\ SubSeq(posts', 1, Len(posts)) = posts
                        /\ posts'[Len(posts')].url = u
                        /\ posts'[Len(posts')].before = P[1]
                        /\ posts'[Len(posts')].now = N[1]
                        /\ posts'[Len(posts')].delta = Round2(Minus(P[1], N[1]))
                   ELSE posts' = posts
          ELSE posts' = posts]_vars

\* records 100.0 then 90.0 for one URL: one notification, with delta 10.0
C7_Witness ==
    /\ webhook # ""
    /\ Len(Entries(file)) = 2
    /\ Entries(file)[1][3] = UrlA /\ Entries(file)[2][3] = UrlA
    /\ Entries(file)[1][5] = <<"1", "0", "0", ".", "0">>
    /\ Entries(file)[2][5] = <<"9", "0", ".", "0">>
    /\ Len(posts) = 1
    /\ posts[1].before = <<100, 0>> /\ posts[1].now = <<90, 0>> /\ posts[1].delta = <<10, 0>>

\* the URLs last_price_for is asked about: those of the urls file and one more
QueriedUrls == {UrlA, UrlB, "https://WWW.FNAC.COM/a1"}

\* C9: last_price_for(url) is the price of the most recently appended entry
\* with that url and a non-empty price, None when there is none; the record
\* just written reads back with the price it was written with; and an append
\* leaves every earlier row as it was.
C9_LastPrice ==
    /\ [](\A u \in QueriedUrls : last_price_for(u, file) = LastEntryPrice(u, file))
    /\ []((record # None /\ record[1].price # None) =>
              last_price_for(record[1].url, file) = record[1].price)
    /\ [][Appended =>
              /\ file' # None
              /\ Len(file'[1]) = (IF file = None THEN 1 ELSE Len(file[1])) + 1
              /\ file # None => IsPrefix(file[1], file'[1])]_vars

\* an entry without a price and an entry of another URL follow the price read
C9_Witness ==
    /\ Len(Entries(file)) = 4
    /\ Entries(file)[1][3] = UrlA /\ Entries(file)[1][5] = <<"1", "0", "0", ".", "0">>
    /\ Entries(file)[2][3] = UrlB /\ Entries(file)[2][5] # <<>>
    /\ Entries(file)[3][3] = UrlA /\ Entries(file)[3][5] = <<"0", ".", "0">>
    /\ Entries(file)[4][3] = UrlB /\ Entries(file)[4][5] = <<>>
    /\ last_price_for(UrlA, file) = Some(<<0, 0>>)
    /\ last_price_for(UrlB, file) = ParseFloat(Entries(file)[2][5])

\* the URL lines among the first n lines of the urls file, in order
RECURSIVE UrlLines(_)
UrlLines(n) ==
    IF n = 0 THEN <<>>
    ELSE UrlLines(n - 1) \o (IF Skipped(lines[n]) THEN <<>> ELSE <<n>>)

\* <<pass, line>> of every URL line handled so far, in the order handled
RECURSIVE Handled(_)
Handled(p) ==
    IF p = 0 THEN <<>>
    ELSE Handled(p - 1) \o
         [k \in 1..Len(UrlLines(IF p = pass THEN i - 1 ELSE Len(lines))) |->
             <<p, UrlLines(IF p = pass THEN i - 1 ELSE Len(lines))[k]>>]

IsOk(e) == e.ok

\* C10: every URL line is handled exactly once per pass and in list order,
\* whatever failed before it; the history log holds one row per URL handled
\* without failure, in order; a failing URL appends nothing and posts
\* nothing; a notification that fails is posted after its row was appended.
C10_FailureIsolation ==
    /\ []([k \in 1..Len(out) |-> <<out[k].pass, out[k].line>>] = Handled(pass))
    /\ []([k \in 1..Len(Entries(file)) |-> Entries(file)[k][3]] =
              [k \in 1..Len(SelectSeq(out, IsOk)) |-> SelectSeq(out, IsOk)[k].url])
    /\ [][(Len(out') = Len(out) + 1 /\ ~out'[Len(out')].ok) =>
              (file' = file /\ posts' = posts)]_vars
    /\ [][posts' # posts =>
              (Appended /\ Len(out') = Len(out) + 1 /\ out'[Len(out')].ok)]_vars

\* a failing URL and an undelivered notification, and the pass still ends
\* with the last line handled
C10_Witness ==
    /\ pc = "idle" /\ pass = 2 /\ Len(lines) = 4
    /\ Len(out) = 4
    /\ ~out[1].ok /\ out[2].ok /\ out[3].ok /\ out[4].ok
    /\ Len(posts) = 1 /\ ~posts[1].delivered /\ posts[1].url = UrlB
    /\ Len(Entries(file)) = 3

====
